---- MODULE Spec2Model ----
(***************************************************************************)
(* Model of the website mirroring engine: AdvancedWebsiteDownloader        *)
(* (src/advanced_downloader.py) and the basic WebsiteDownloader            *)
(* (src/website_downloader.py), whose definitions carry the prefix basic_. *)
(* The variable impl tells which of the two classes the crawl runs.        *)
(*                                                                         *)
(* A URL string is modelled by the fields urlparse() yields for it:        *)
(* scheme, netloc (as its dot-separated labels), path (as its              *)
(* '/'-separated segments, each a stem and an extension, with "rooted"     *)
(* telling whether the path starts with '/' and "slash" whether it ends    *)
(* with one), the query (as its tokens: words and the separator            *)
(* characters) and the fragment.  A reference found in a page is a         *)
(* tag/attribute (or CSS form) together with the URL string written there. *)
(***************************************************************************)
EXTENDS Integers, Sequences, FiniteSets, TLC

\* ------------------------------------------------------------------------
\* Bounds of the model
\* ------------------------------------------------------------------------
MaxDepthBound == 1
MaxWorkers    == 2
MaxRefs       == 2

\* ------------------------------------------------------------------------
\* URLs
\* ------------------------------------------------------------------------
Seg(stem, ext) == [stem |-> stem, ext |-> ext]

Url(scheme, netloc, rooted, path, slash, frag) ==
    [scheme |-> scheme, netloc |-> netloc, rooted |-> rooted, path |-> path,
     slash |-> slash, query |-> <<>>, frag |-> frag]

\* the URL followed by "?" and the query
WithQuery(url, query) == [url EXCEPT !.query = query]

RootHost  == <<"example", "com">>
SubHost   == <<"sub", "example", "com">>
OtherHost == <<"other", "com">>
BadHost   == <<"badexample", "com">>
NoHost    == <<>>

\* "https://host/p/q.x"; the path of "https://host" is empty
Https(netloc, path) == Url("https", netloc, path # <<>>, path, FALSE, "")
\* a path-absolute reference such as href="/a/b.html"
Abs(path)           == Url("", NoHost, TRUE, path, FALSE, "")
\* a path-relative reference such as href="../c.css"
Rel(path)           == Url("", NoHost, FALSE, path, FALSE, "")

\* ------------------------------------------------------------------------
\* Configuration and crawl state of one downloader object
\* ------------------------------------------------------------------------
VARIABLES
    impl,                \* "advanced" or "basic": the class in use
    max_depth,           \* self.max_depth
    max_workers,         \* self.max_workers
    delay,               \* self.delay, in seconds
    include_subdomains,  \* config['include_subdomains']
    force_redownload,    \* config['force_redownload']
    site_variant,        \* the root page the server has: "styled" (with a
                         \* style attribute that refers to the image) or
                         \* "plain" (without it)
    robots_txt,          \* what the request for /robots.txt meets: "served",
                         \* "absent" (404) or "unparsable" (not decodable)
    denied,              \* what the rules of a served robots.txt disallow
    downloaded_urls,     \* self.downloaded_urls (VisitedSet)
    failed_urls,         \* self.failed_urls (FailedSet)
    download_stats,      \* self.download_stats: asset type -> files counted
    url_queue,           \* self.url_queue
    files,               \* the mirror directory: path -> saved content
    url_aliases,         \* self.url_aliases: url -> path, filled by
                         \* url_to_filepath
    verify_report,       \* what verify_completeness found, once it has run
    tasks,               \* the download_worker calls of the current batch
    lock,                \* self.lock: 0 when free, else the unit whose
                         \* thread holds it
    unlocked,            \* history: the accesses to shared state made by a
                         \* thread that did not hold self.lock
    fetch_count,         \* history: per URL, the units that went on to a fetch
    fetch_depths,        \* history: per URL, the depths of those units
    rewrites,            \* history: the (url, content read, content written)
                         \* of every rewrite
    enqueues,            \* history: every (parent type, parent depth, url,
                         \* depth) a processed unit handed to the queue
    basic_requests,      \* history: the session.get calls of the last
                         \* download_file call of WebsiteDownloader
    mapped               \* history: what the calls of url_to_filepath made
                         \* from outside the crawl have given

vars == <<impl, max_depth, max_workers, include_subdomains, force_redownload,
          robots_txt, denied, site_variant,
          downloaded_urls, failed_urls, download_stats, url_queue, files, url_aliases,
          verify_report, tasks, fetch_count, fetch_depths, rewrites, enqueues, basic_requests,
          lock, unlocked, delay, mapped>>

\* ------------------------------------------------------------------------
\* ResourceClassifier
\* ------------------------------------------------------------------------
asset_types ==
    [html      |-> {"html", "htm", "php", "asp", "aspx", "jsp"},
     css       |-> {"css"},
     js        |-> {"js"},
     images    |-> {"jpg", "jpeg", "png", "gif", "svg", "ico", "webp", "bmp"},
     fonts     |-> {"woff", "woff2", "ttf", "eot", "otf"},
     documents |-> {"pdf", "doc", "docx", "txt"},
     media     |-> {"mp4", "mp3", "avi", "mov", "wav", "ogg"},
     archives  |-> {"zip", "tar", "gz", "rar"}]

\* Path(path).suffix of the URL's path, without the dot
suffix(url) == IF url.path = <<>> THEN "" ELSE url.path[Len(url.path)].ext

get_asset_type(url) ==
    LET ext == suffix(url) IN
    IF \E t \in DOMAIN asset_types : ext \in asset_types[t]
    THEN CHOOSE t \in DOMAIN asset_types : ext \in asset_types[t]
    ELSE IF ext = "" THEN "html" ELSE "other"

\* ------------------------------------------------------------------------
\* Scope rule, normalisation, resolution
\* ------------------------------------------------------------------------
\* netloc.endswith('.' + domain)
EndsWithDotDomain(netloc, dom) ==
    /\ Len(netloc) > Len(dom)
    /\ SubSeq(netloc, Len(netloc) - Len(dom) + 1, Len(netloc)) = dom

\* self.base_url and self.domain
base_url == Https(RootHost, <<>>)
domain   == base_url.netloc

\* the subdomain test without the include_subdomains option
is_internal_url_AnySubdomain(url) ==
    IF url.netloc = domain THEN TRUE
    ELSE IF url.netloc = NoHost THEN TRUE
    ELSE IF EndsWithDotDomain(url.netloc, domain) THEN TRUE
    ELSE FALSE

is_internal_url(url) ==
    IF url.netloc = domain THEN TRUE
    ELSE IF url.netloc = NoHost THEN TRUE
    ELSE IF include_subdomains /\ EndsWithDotDomain(url.netloc, domain) THEN TRUE
    ELSE FALSE

\* s.rstrip('/') of a token sequence
RECURSIVE rstrip_slash(_)
rstrip_slash(q) ==
    IF q # <<>> /\ q[Len(q)] = "/" THEN rstrip_slash(SubSeq(q, 1, Len(q) - 1))
    ELSE q

\* url.split('#')[0]: the fragment goes, and with it what follows a '#'
\* that stands in the query
RECURSIVE before_hash(_)
before_hash(q) ==
    IF q = <<>> THEN q
    ELSE IF q[1] = "#" THEN <<>>
    ELSE <<q[1]>> \o before_hash(Tail(q))

split_fragment(url) == [url EXCEPT !.frag = "", !.query = before_hash(url.query)]

\* urllib.parse.unquote of one token: one level of percent-encoding is
\* taken off
unquote_token(tok) ==
    IF tok = "%2523" THEN "%23"
    ELSE IF tok = "%23" THEN "#"
    ELSE tok

\* unquote(url): the tokens of the query are decoded
unquote(url) == [url EXCEPT !.query = [k \in DOMAIN url.query |-> unquote_token(url.query[k])]]

\* url.rstrip('/') works on the whole string: it removes the slash that
\* ends the path only when no query follows it, and otherwise the slashes
\* that end the query
normalize_url(url) ==
    LET decoded == unquote(split_fragment(url)) IN
    IF decoded.slash /\ decoded.path # <<>>
    THEN IF decoded.query = <<>>
         THEN [decoded EXCEPT !.slash = FALSE]
         ELSE [decoded EXCEPT !.query = rstrip_slash(decoded.query)]
    ELSE decoded

DotDot == Seg("..", "")
CurDir == Seg(".", "")

\* remove_dot_segments of a merged path
RECURSIVE RemoveDots(_, _)
RemoveDots(done, rest) ==
    IF rest = <<>> THEN done
    ELSE IF rest[1] = CurDir THEN RemoveDots(done, Tail(rest))
    ELSE IF rest[1] = DotDot
         THEN RemoveDots(IF done = <<>> THEN done
                         ELSE SubSeq(done, 1, Len(done) - 1), Tail(rest))
    ELSE RemoveDots(Append(done, rest[1]), Tail(rest))

\* urllib.parse.urljoin(base, ref), base being an absolute URL: a reference
\* with a scheme stands for itself, a path-absolute one takes the base's
\* scheme and netloc, a path-relative one is merged with the base's
\* directory
urljoin(base, ref) ==
    IF ref.scheme # "" THEN ref
    ELSE IF ref.rooted
         THEN [ref EXCEPT !.scheme = base.scheme, !.netloc = base.netloc]
    ELSE LET dir == IF base.slash \/ base.path = <<>> THEN base.path
                    ELSE SubSeq(base.path, 1, Len(base.path) - 1)
             p   == RemoveDots(<<>>, dir \o ref.path)
         IN  [ref EXCEPT !.scheme = base.scheme, !.netloc = base.netloc,
                         !.rooted = TRUE, !.path = p]

\* ------------------------------------------------------------------------
\* PathMapper
\* ------------------------------------------------------------------------
IndexHtml == Seg("index", "html")

\* ''.join of a token sequence
RECURSIVE Join(_)
Join(q) == IF q = <<>> THEN "" ELSE q[1] \o Join(Tail(q))

\* query.replace('&', '_').replace('=', '-').replace('?', '_')
query_part(query) ==
    Join([k \in DOMAIN query |->
            IF query[k] = "&" THEN "_"
            ELSE IF query[k] = "=" THEN "-"
            ELSE IF query[k] = "?" THEN "_"
            ELSE query[k]])

\* Path.with_name raises ValueError for a name that holds a '/'
url_to_filepath_raises(url) == "/" \in {url.query[k] : k \in DOMAIN url.query}

\* path_obj.with_name(path_obj.stem + '_' + query_part + path_obj.suffix)
fold_query(path, query) ==
    IF query = <<>> THEN path
    ELSE [path EXCEPT ![Len(path)] =
             Seg(path[Len(path)].stem \o "_" \o query_part(query), path[Len(path)].ext)]

\* the path the mapping with state-dependent output would give
url_to_filepath_Stateful(url) ==
    LET p1 == IF url.path = <<>> THEN <<IndexHtml>>
              ELSE IF url.slash THEN Append(url.path, IndexHtml)
              ELSE url.path
        last == p1[Len(p1)]
    IN  fold_query(
            IF last.ext = "" /\ get_asset_type(url) = "html" /\ url \notin downloaded_urls
            THEN [p1 EXCEPT ![Len(p1)] = Seg(last.stem, "html")]
            ELSE p1, url.query)

\* the path below output_dir, for a url that url_to_filepath_raises does
\* not hold of
url_to_filepath(url) ==
    LET p1 == IF url.path = <<>> THEN <<IndexHtml>>
              ELSE IF url.slash THEN Append(url.path, IndexHtml)
              ELSE url.path
        last == p1[Len(p1)]
    IN  fold_query(
            IF last.ext = "" /\ get_asset_type(url) = "html"
            THEN [p1 EXCEPT ![Len(p1)] = Seg(last.stem, "html")]
            ELSE p1, url.query)

\* self.url_aliases[url] = filepath, for each url of a set, on top of al
StoreAliases(al, urls) ==
    [u \in DOMAIN al \cup urls |-> IF u \in urls THEN url_to_filepath(u) ELSE al[u]]

parent(filepath) == SubSeq(filepath, 1, Len(filepath) - 1)

RECURSIVE CommonLen(_, _)
CommonLen(a, b) ==
    IF a = <<>> \/ b = <<>> \/ a[1] # b[1] THEN 0
    ELSE 1 + CommonLen(Tail(a), Tail(b))

\* os.path.relpath(target, start)
relpath(target, start) ==
    LET i   == CommonLen(start, target)
        rel == [k \in 1..(Len(start) - i) |-> DotDot]
               \o SubSeq(target, i + 1, Len(target))
    IN  IF rel = <<>> THEN <<CurDir>> ELSE rel

\* ------------------------------------------------------------------------
\* Content: a document is the sequence of the references written in it
\* ------------------------------------------------------------------------
\* an element attribute:            <tag attr="val">
AttrRef(tag, attr, val) == [ctx |-> "attr", tag |-> tag, attr |-> attr, val |-> val]
\* CSS in a style attribute, in a <style> block, or in a stylesheet file;
\* form is "url" for url(val), "import_q" for @import "val" and
\* "import_url" for @import url(val)
CssRef(ctx, form, val)  == [ctx |-> ctx, tag |-> "", attr |-> form, val |-> val]

CssForms == {"url", "import_q", "import_url"}

\* ------------------------------------------------------------------------
\* LinkExtractor
\* ------------------------------------------------------------------------
extract_selectors ==
    [a      |-> {"href"},
     link   |-> {"href"},
     script |-> {"src"},
     img    |-> {"src", "data-src", "data-lazy-src"},
     source |-> {"src", "srcset"},
     iframe |-> {"src"},
     embed  |-> {"src"},
     object |-> {"data"},
     video  |-> {"src", "poster"},
     audio  |-> {"src"},
     track  |-> {"src"}]

Range(seq) == {seq[k] : k \in DOMAIN seq}

\* the value holds one URL (no comma, so the srcset branch is not taken)
parse_url_attribute(attr_value, base) == {normalize_url(urljoin(base, attr_value))}

\* css_content: the CSS references of one style attribute, block or file
extract_css_urls(css_content, base) ==
    {normalize_url(urljoin(base, r.val)) :
        r \in {x \in css_content : x.attr \in CssForms /\ x.val.scheme # "data"}}

extract_links_advanced(html_content, base) ==
    LET refs == Range(html_content) IN
    UNION {parse_url_attribute(r.val, base) :
              r \in {x \in refs : /\ x.ctx = "attr"
                                  /\ x.tag \in DOMAIN extract_selectors
                                  /\ x.attr \in extract_selectors[x.tag]}}
    \cup extract_css_urls({x \in refs : x.ctx = "inline"}, base)
    \cup extract_css_urls({x \in refs : x.ctx = "styletag"}, base)

\* ------------------------------------------------------------------------
\* Rewriter
\* ------------------------------------------------------------------------
convert_selectors ==
    [a      |-> {"href"},
     link   |-> {"href"},
     script |-> {"src"},
     img    |-> {"src", "data-src"},
     source |-> {"src"},
     iframe |-> {"src"},
     embed  |-> {"src"},
     object |-> {"data"},
     video  |-> {"src", "poster"},
     audio  |-> {"src"}]

convert_single_url(url, current_url, current_filepath) ==
    LET normalized_url == normalize_url(urljoin(current_url, url)) IN
    IF is_internal_url(normalized_url)
    THEN Rel(relpath(url_to_filepath(normalized_url), parent(current_filepath)))
    ELSE url

\* one CSS reference: url(...) and @import "..." are replaced unless data:
convert_css_ref(r, current_url) ==
    IF r.attr \in CssForms /\ r.val.scheme # "data"
    THEN [r EXCEPT !.val = convert_single_url(r.val, current_url,
                                              url_to_filepath(current_url))]
    ELSE r

convert_css_links(css_content, current_url) ==
    [k \in DOMAIN css_content |-> convert_css_ref(css_content[k], current_url)]

convert_html_ref(r, current_url) ==
    IF r.ctx = "attr"
    THEN IF r.tag \in DOMAIN convert_selectors /\ r.attr \in convert_selectors[r.tag]
         THEN [r EXCEPT !.val = convert_single_url(r.val, current_url,
                                                   url_to_filepath(current_url))]
         ELSE r
    ELSE IF r.ctx \in {"inline", "styletag"} THEN convert_css_ref(r, current_url)
    ELSE r

convert_html_links(html_content, current_url) ==
    [k \in DOMAIN html_content |-> convert_html_ref(html_content[k], current_url)]

\* the URLs convert_single_url hands to url_to_filepath while a document
\* is rewritten
convert_targets(content, current_url, content_type) ==
    LET handled(r) ==
            IF content_type = "html" /\ r.ctx = "attr"
            THEN r.tag \in DOMAIN convert_selectors /\ r.attr \in convert_selectors[r.tag]
            ELSE r.attr \in CssForms /\ r.val.scheme # "data"
    IN  {t \in {normalize_url(urljoin(current_url, r.val)) :
                   r \in {x \in Range(content) : handled(x)}} : is_internal_url(t)}

convert_links_advanced(content, current_url, content_type) ==
    IF content_type = "html" THEN convert_html_links(content, current_url)
    ELSE IF content_type = "css" THEN convert_css_links(content, current_url)
    ELSE content

\* ------------------------------------------------------------------------
\* The site being mirrored (what the server returns for each URL)
\* ------------------------------------------------------------------------
PageA    == Https(RootHost, <<Seg("docs", ""), Seg("a", "")>>)
StyleCss == Https(RootHost, <<Seg("css", ""), Seg("style", "css")>>)
ImgPng   == Https(RootHost, <<Seg("img", "png")>>)
ThemePhp == Https(RootHost, <<Seg("theme", "php")>>)
SubPage  == Https(SubHost, <<Seg("s", "html")>>)
OtherCss == Https(OtherHost, <<Seg("x", "css")>>)
MailTo   == Url("mailto", NoHost, FALSE, <<Seg("t@example", "com")>>, FALSE, "")

pages(variant, url) ==
    IF url = base_url THEN
        << AttrRef("a", "href", Abs(PageA.path)),
           AttrRef("link", "href", Abs(StyleCss.path)),
           AttrRef("link", "href", OtherCss) >>
        \o (IF variant = "styled"
            THEN << CssRef("inline", "url", [Abs(ImgPng.path) EXCEPT !.frag = "top"]) >>
            ELSE << >>)
    ELSE IF url = PageA THEN
        << AttrRef("a", "href", SubPage),
           AttrRef("a", "href", MailTo),
           AttrRef("img", "data-lazy-src", Abs(ImgPng.path)),
           AttrRef("a", "href", base_url) >>
    ELSE IF url = StyleCss THEN
        << CssRef("css", "url", Abs(ImgPng.path)),
           CssRef("css", "import_q", Abs(ThemePhp.path)) >>
    ELSE IF url = ImgPng THEN << "IHDR", "IDAT" >>
    ELSE << >>

\* response.text / response.content of a request for url
site_content(url) == pages(site_variant, url)

\* what the server has, and which of it the server may fail to deliver
SiteUrls == {base_url, PageA, StyleCss, ImgPng, ThemePhp, SubPage}
Flaky    == {ImgPng}
\* what the server sends with a content type that is not text, html, css or
\* javascript, and download_file therefore streams to disk
BinaryUrls == {ImgPng}
\* the pages whose saved file the processing step may fail to read
Fragile    == {PageA}
AllUrls  == SiteUrls \cup {OtherCss, MailTo}

\* ------------------------------------------------------------------------
\* Crawl driver
\* ------------------------------------------------------------------------
max_retries == 3

Min(a, b) == IF a < b THEN a ELSE b

\* a set.add that forgets what the set held
set_add_Only(S, url) == {url}

\* self.downloaded_urls.add(url), self.failed_urls.add(url)
set_add(S, url) == S \cup {url}

\* the orders in which a loop over a Python set can visit it
RECURSIVE Orders(_)
Orders(S) ==
    IF S = {} THEN {<< >>}
    ELSE UNION {{<<x>> \o rest : rest \in Orders(S \ {x})} : x \in S}

\* check_robots_txt with the rules kept whatever the request met
check_robots_txt_Keep == "rules"

\* self.robots_parser as check_robots_txt leaves it: RobotFileParser.read()
\* takes a 404 as "allow all" and raises on undecodable bytes, and then
\* the except branch stores None
check_robots_txt ==
    IF robots_txt = "served" THEN "rules"
    ELSE IF robots_txt = "absent" THEN "allow_all"
    ELSE "none"

robots_parser == check_robots_txt

\* can_fetch without the robots test
can_fetch_AllowAll(url) == TRUE

can_fetch(url) ==
    IF robots_parser # "none"
    THEN robots_parser = "allow_all" \/ url \notin denied
    ELSE TRUE

NewTask(pair) ==
    [url |-> pair[1], depth |-> pair[2], pc |-> "submitted",
     attempt |-> 0, existed |-> FALSE, requests |-> 0, result |-> "none",
     slept |-> <<>>, new_urls |-> <<>>]

\* pc: "submitted" (not yet taken by a pool thread), "attempt" (in
\* download_file_with_retry, about to call download_file), "get" (in
\* download_file, request under way), "mark_ok" and "mark_failed" (at a
\* "with self.lock:", before the lock is taken), "locked_ok" and
\* "locked_failed" (inside it), "fetched" (download_file_with_retry
\* returned True), "done" (download_worker returned), "raised"
\* (download_worker ended with an exception), "collected" (the
\* driver has taken the result).  result: what download_file_with_retry
\* returned, "none" while it has not.  attempt: the loop variable of
\* download_file_with_retry.  existed (history): the file was there when the
\* first attempt began.  requests (history): the session.get calls made.
Running(t) ==
    t.pc \in {"attempt", "get", "mark_ok", "locked_ok", "mark_failed", "locked_failed",
              "fetched"}

\* what an earlier run over the same output directory has left there
PriorMirror == [f \in {url_to_filepath(ImgPng)} |-> pages("styled", ImgPng)]

\* the settings a run starts with: the defaults, and the others one at a
\* time; the worker pool is run with the defaults
DefaultOptions == [force |-> FALSE, files |-> << >>, robots |-> "served"]
Options ==
    {DefaultOptions,
     [force |-> FALSE, files |-> PriorMirror, robots |-> "served"],
     [force |-> TRUE,  files |-> PriorMirror, robots |-> "served"],
     [force |-> FALSE, files |-> << >>,       robots |-> "absent"],
     [force |-> FALSE, files |-> << >>,       robots |-> "unparsable"]}

\* defaultdict(int) before anything is counted
NoStats == [t \in DOMAIN asset_types \cup {"other"} |-> 0]

NotVerified == [ran |-> FALSE, missing |-> {}, broken |-> {}, result |-> FALSE]

Init ==
    /\ impl \in {"advanced", "basic"}
    /\ max_depth \in 0..MaxDepthBound
    /\ max_workers \in IF impl = "advanced" THEN {1, MaxWorkers} ELSE {1}
    /\ delay = 1
    /\ site_variant = "styled"
    /\ include_subdomains \in IF impl = "advanced" THEN BOOLEAN ELSE {FALSE}
    /\ denied = {SubPage, ThemePhp}
    /\ \E o \in Options :
          /\ force_redownload = o.force
          /\ robots_txt = o.robots
          /\ files = o.files
          /\ (impl = "basic" => ~ o.force)
          /\ (max_workers > 1 => o = DefaultOptions /\ ~ include_subdomains)
    /\ downloaded_urls = {}
    /\ failed_urls = {}
    /\ download_stats = NoStats
    /\ url_queue = << <<base_url, 0>> >>
    /\ url_aliases = << >>
    /\ verify_report = NotVerified
    /\ tasks = << >>
    /\ lock = 0
    /\ unlocked = {}
    /\ fetch_count = [u \in AllUrls |-> 0]
    /\ fetch_depths = [u \in AllUrls |-> {}]
    /\ rewrites = {}
    /\ enqueues = {}
    /\ basic_requests = 0
    /\ mapped = {}

config == <<impl, max_depth, max_workers, delay, include_subdomains, force_redownload,
           robots_txt, denied, site_variant>>
history == <<fetch_count, fetch_depths, rewrites, enqueues, basic_requests, unlocked>>

\* an access of unit i's thread to a shared structure, noted when the
\* thread does not hold the lock
Access(i, site, var, kind) ==
    IF lock = i THEN {} ELSE {[site |-> site, var |-> var, kind |-> kind]}

\* download_sequential takes one unit, download_threaded a batch
\* a batch of as many units as there are threads
batch_size_Workers ==
    IF max_workers > 1 THEN Min(Len(url_queue), max_workers) ELSE 1

batch_size ==
    IF max_workers > 1 THEN Min(Len(url_queue), max_workers * 2) ELSE 1

\* [self.url_queue.popleft() for _ in range(n)]: the batch and what is left
popleft(queue, n) ==
    [batch |-> SubSeq(queue, 1, n), rest |-> SubSeq(queue, n + 1, Len(queue))]

FormBatch ==
    /\ impl = "advanced"
    /\ tasks = << >>
    /\ url_queue # << >>
    /\ tasks' = [k \in 1..batch_size |-> NewTask(popleft(url_queue, batch_size).batch[k])]
    /\ url_queue' = popleft(url_queue, batch_size).rest
    /\ UNCHANGED <<config, mapped, download_stats, verify_report, lock, downloaded_urls, failed_urls, files, url_aliases, history>>

\* "Skip if already processed"
ShouldSkip_NoDepth(url, depth) == url \in downloaded_urls

ShouldSkip(url, depth) == url \in downloaded_urls \/ depth > max_depth

\* download_worker, up to the call of download_file_with_retry
Start(i) ==
    /\ i \in DOMAIN tasks
    /\ tasks[i].pc = "submitted"
    /\ \A j \in 1..(i - 1) : tasks[j].pc # "submitted"
    /\ Cardinality({j \in DOMAIN tasks : Running(tasks[j])}) < max_workers
    /\ LET t == tasks[i] IN
       IF ShouldSkip(t.url, t.depth)
       THEN /\ tasks' = [tasks EXCEPT ![i].pc = "done"]
            /\ unlocked' = unlocked \cup
                  Access(i, "download_worker", "downloaded_urls", "read")
            /\ UNCHANGED <<fetch_count, fetch_depths, url_aliases>>
       ELSE IF ~ can_fetch(t.url)
       THEN /\ tasks' = [tasks EXCEPT ![i].pc = "done"]
            /\ unlocked' = unlocked \cup
                  Access(i, "download_worker", "downloaded_urls", "read")
            /\ UNCHANGED <<fetch_count, fetch_depths, url_aliases>>
       ELSE IF url_to_filepath_raises(t.url)
       THEN /\ tasks' = [tasks EXCEPT ![i].pc = "raised", ![i].result = "raised"]
            /\ unlocked' = unlocked \cup
                  Access(i, "download_worker", "downloaded_urls", "read")
            /\ UNCHANGED <<fetch_count, fetch_depths, url_aliases>>
       ELSE /\ tasks' = [tasks EXCEPT ![i].pc = "attempt"]
            /\ url_aliases' = StoreAliases(url_aliases, {t.url})
            /\ unlocked' = unlocked \cup
                  Access(i, "download_worker", "downloaded_urls", "read") \cup
                  Access(i, "url_to_filepath", "url_aliases", "write")
            /\ fetch_count' = [fetch_count EXCEPT ![t.url] = @ + 1]
            /\ fetch_depths' = [fetch_depths EXCEPT ![t.url] = @ \cup {t.depth}]
    /\ UNCHANGED <<config, mapped, download_stats, verify_report, lock, downloaded_urls, failed_urls, url_queue, files,
                   rewrites, enqueues, basic_requests>>

\* "Skip if already exists and not forcing re-download"
AlreadyPresent_IgnoreForce(filepath) == filepath \in DOMAIN files

AlreadyPresent(filepath) == filepath \in DOMAIN files /\ ~ force_redownload

\* download_file, up to the request: an existing file counts as downloaded
BeginAttempt(i) ==
    /\ i \in DOMAIN tasks
    /\ tasks[i].pc = "attempt"
    /\ LET t == tasks[i]
           existed == IF t.attempt = 0 THEN url_to_filepath(t.url) \in DOMAIN files
                      ELSE t.existed
       IN
       IF AlreadyPresent(url_to_filepath(t.url))
       THEN tasks' = [tasks EXCEPT ![i].pc = "mark_ok", ![i].existed = existed]
       ELSE tasks' = [tasks EXCEPT ![i].pc = "get", ![i].requests = Min(@ + 1, max_retries),
                                   ![i].existed = existed]
    /\ UNCHANGED <<config, mapped, download_stats, verify_report, lock, downloaded_urls, failed_urls, url_queue,
                   files, url_aliases, history>>

WriteFile(filepath, content) ==
    [f \in DOMAIN files \cup {filepath} |->
        IF f = filepath THEN content ELSE files[f]]

\* download_file: the request succeeds and the body is saved
GetOk(i) ==
    /\ i \in DOMAIN tasks
    /\ tasks[i].pc = "get"
    /\ tasks[i].url.scheme \in {"http", "https"}
    /\ tasks[i].url \in SiteUrls
    /\ files' = WriteFile(url_to_filepath(tasks[i].url), site_content(tasks[i].url))
    /\ tasks' = [tasks EXCEPT ![i].pc = "mark_ok"]
    /\ UNCHANGED <<config, mapped, download_stats, verify_report, lock, downloaded_urls, failed_urls, url_queue,
                   url_aliases, history>>

\* "with self.lock:" is entered: the thread waits until the lock is free
Acquire(i) ==
    /\ i \in DOMAIN tasks
    /\ tasks[i].pc \in {"mark_ok", "mark_failed"}
    /\ lock = 0
    /\ lock' = i
    /\ tasks' = [tasks EXCEPT ![i].pc = IF @ = "mark_ok" THEN "locked_ok"
                                        ELSE "locked_failed"]
    /\ UNCHANGED <<config, mapped, download_stats, verify_report, downloaded_urls, failed_urls, url_queue,
                   files, url_aliases, history>>

\* download_file under the lock: the URL is recorded as downloaded, and
\* counted when this attempt has made the request (the branch of the
\* existing file, taken with no request, counts nothing); the lock is
\* released and download_file returns True
MarkDownloaded(i) ==
    /\ i \in DOMAIN tasks
    /\ tasks[i].pc = "locked_ok"
    /\ downloaded_urls' = set_add(downloaded_urls, tasks[i].url)
    /\ unlocked' = unlocked \cup
          Access(i, "download_file", "downloaded_urls", "write")
    /\ download_stats' =
          IF tasks[i].requests = tasks[i].attempt + 1
          THEN [download_stats EXCEPT ![get_asset_type(tasks[i].url)] = @ + 1]
          ELSE download_stats
    /\ lock' = 0
    /\ tasks' = [tasks EXCEPT ![i].pc = "fetched", ![i].result = "ok"]
    /\ UNCHANGED <<config, mapped, verify_report, failed_urls, url_queue, files, url_aliases,
                   fetch_count, fetch_depths, rewrites, enqueues, basic_requests>>

\* the recording of the failure with the lock kept on return
MarkFailed_Keep(i) ==
    /\ i \in DOMAIN tasks
    /\ tasks[i].pc = "locked_failed"
    /\ failed_urls' = set_add(failed_urls, tasks[i].url)
    /\ tasks' = [tasks EXCEPT ![i].pc = "done", ![i].result = "failed"]
    /\ UNCHANGED <<config, mapped, download_stats, verify_report, lock, downloaded_urls, url_queue, files,
                   url_aliases, history>>

\* download_file_with_retry under the lock after the last attempt: the URL
\* is recorded as failed, the lock is released, False is returned and
\* download_worker returns [] after the delay
MarkFailed(i) ==
    /\ i \in DOMAIN tasks
    /\ tasks[i].pc = "locked_failed"
    /\ failed_urls' = set_add(failed_urls, tasks[i].url)
    /\ unlocked' = unlocked \cup
          Access(i, "download_file_with_retry", "failed_urls", "write")
    /\ lock' = 0
    /\ tasks' = [tasks EXCEPT ![i].pc = "done", ![i].result = "failed"]
    /\ UNCHANGED <<config, mapped, download_stats, verify_report, downloaded_urls, url_queue, files, url_aliases,
                   fetch_count, fetch_depths, rewrites, enqueues, basic_requests>>

\* time.sleep(2 ** attempt): the seconds slept after the failed attempt
backoff(attempt) == 2 ^ attempt

\* the except branch with no cap on the attempts
RetryOrGiveUp_Forever(i) ==
    /\ tasks' = [tasks EXCEPT ![i].pc = "attempt"]
    /\ UNCHANGED failed_urls

\* the except branch of download_file_with_retry: after the backoff the
\* next attempt, or after the last attempt on to the recording of the
\* failure; slept notes the backoff sleeps of the unit
RetryOrGiveUp(i) ==
    IF tasks[i].attempt = max_retries - 1
    THEN /\ tasks' = [tasks EXCEPT ![i].pc = "mark_failed"]
         /\ UNCHANGED failed_urls
    ELSE /\ tasks' = [tasks EXCEPT ![i].pc = "attempt", ![i].attempt = @ + 1,
                                   ![i].slept = Append(@, backoff(tasks[i].attempt))]
         /\ UNCHANGED failed_urls

\* download_file raises before anything is written: the request fails
GetFail(i) ==
    /\ i \in DOMAIN tasks
    /\ tasks[i].pc = "get"
    /\ \/ tasks[i].url \in Flaky
       \/ tasks[i].url \notin SiteUrls
       \/ tasks[i].url.scheme \notin {"http", "https"}
    /\ RetryOrGiveUp(i)
    /\ UNCHANGED <<config, mapped, download_stats, verify_report, lock, downloaded_urls, url_queue, files, url_aliases, history>>

\* what is on disk of a body whose transfer broke off
Truncated(content) == SubSeq(content, 1, Len(content) \div 2)

\* download_file raises in the loop over response.iter_content: the file
\* has been opened for writing and holds what came before the failure
StreamFail(i) ==
    /\ i \in DOMAIN tasks
    /\ tasks[i].pc = "get"
    /\ tasks[i].url \in Flaky \cap BinaryUrls
    /\ files' = WriteFile(url_to_filepath(tasks[i].url),
                          Truncated(site_content(tasks[i].url)))
    /\ RetryOrGiveUp(i)
    /\ UNCHANGED <<config, mapped, download_stats, verify_report, lock, downloaded_urls, url_queue, url_aliases, history>>

Enq(ptype, pdepth, pairs) ==
    {[ptype |-> ptype, pdepth |-> pdepth, url |-> pr[1], depth |-> pr[2]] :
        pr \in pairs}

\* the depth a link found on an html unit is enqueued at
LinkDepth_Deeper(link, depth) == depth + 1

LinkDepth(link, depth) ==
    IF get_asset_type(link) = "html" THEN depth + 1 ELSE depth

\* download_worker after a successful download: extraction and rewriting
Process(i) ==
    /\ i \in DOMAIN tasks
    /\ tasks[i].pc = "fetched"
    /\ UNCHANGED <<config, mapped, download_stats, verify_report, lock, downloaded_urls, failed_urls, url_queue,
                   fetch_count, fetch_depths, basic_requests>>
    /\ unlocked' = unlocked \cup
          IF get_asset_type(tasks[i].url) \in {"html", "css"}
          THEN Access(i, "download_worker", "downloaded_urls", "read") \cup
               Access(i, "url_to_filepath", "url_aliases", "write")
          ELSE {}
    /\ LET t          == tasks[i]
           filepath   == url_to_filepath(t.url)
           asset_type == get_asset_type(t.url)
           content    == files[filepath]
       IN  IF asset_type = "html"
           THEN LET links == IF is_internal_url(t.url)
                             THEN extract_links_advanced(content, t.url)
                             ELSE {}
                    new   == {l \in links : l \notin downloaded_urls /\ is_internal_url(l)}
                    converted_content == convert_links_advanced(content, t.url, "html")
                IN  /\ files' = WriteFile(filepath, converted_content)
                    /\ url_aliases' = StoreAliases(url_aliases,
                          {t.url} \cup convert_targets(content, t.url, "html"))
                    /\ rewrites' = rewrites \cup
                          {[url |-> t.url, before |-> content, after |-> converted_content]}
                    /\ enqueues' = enqueues \cup
                          Enq("html", t.depth, {<<l, LinkDepth(l, t.depth)>> : l \in new})
                    /\ \E order \in Orders(new) :
                          tasks' = [tasks EXCEPT
                              ![i].pc = "done",
                              ![i].new_urls = [k \in DOMAIN order |->
                                  <<order[k], LinkDepth(order[k], t.depth)>>]]
           ELSE IF asset_type = "css"
           THEN LET css_urls == extract_css_urls(Range(content), t.url)
                    new      == {l \in css_urls : l \notin downloaded_urls /\ is_internal_url(l)}
                    converted_content == convert_links_advanced(content, t.url, "css")
                IN  /\ files' = WriteFile(filepath, converted_content)
                    /\ url_aliases' = StoreAliases(url_aliases,
                          {t.url} \cup convert_targets(content, t.url, "css"))
                    /\ rewrites' = rewrites \cup
                          {[url |-> t.url, before |-> content, after |-> converted_content]}
                    /\ enqueues' = enqueues \cup
                          Enq("css", t.depth, {<<l, t.depth>> : l \in new})
                    /\ \E order \in Orders(new) :
                          tasks' = [tasks EXCEPT
                              ![i].pc = "done",
                              ![i].new_urls = [k \in DOMAIN order |-> <<order[k], t.depth>>]]
           ELSE /\ tasks' = [tasks EXCEPT ![i].pc = "done"]
                /\ UNCHANGED <<files, url_aliases, rewrites, enqueues>>

\* the handling of an error in the processing step, with the error going
\* up to the driver's loop instead
Caught_Propagate(t) == [t EXCEPT !.pc = "raised"]

\* "except Exception as e: self.logger.error(...)": the unit ends normally
Caught(t) == [t EXCEPT !.pc = "done"]

\* download_worker after a successful download, when reading the saved file
\* raises: nothing is extracted or rewritten
ProcessError(i) ==
    /\ i \in DOMAIN tasks
    /\ tasks[i].pc = "fetched"
    /\ tasks[i].url \in Fragile
    /\ get_asset_type(tasks[i].url) \in {"html", "css"}
    /\ tasks' = [tasks EXCEPT ![i] = Caught(tasks[i])]
    /\ UNCHANGED <<config, mapped, download_stats, verify_report, lock, downloaded_urls, failed_urls, url_queue,
                   files, url_aliases, history>>

\* a future the driver takes although its unit is still running
Completed_Early(t) == t.pc \notin {"submitted", "collected"}

\* the futures as_completed yields: the unit has returned, or has ended
\* with an exception, which only the pool's driver handles
Completed(t) == t.pc = "done" \/ (t.pc = "raised" /\ max_workers > 1)

\* the driver takes a finished unit's result and extends the queue;
\* future.result() of a unit that raised goes to the except branch
Collect(i) ==
    /\ i \in DOMAIN tasks
    /\ Completed(tasks[i])
    /\ url_queue' = IF tasks[i].pc = "raised" THEN url_queue
                    ELSE url_queue \o tasks[i].new_urls
    /\ LET after == [tasks EXCEPT ![i].pc = "collected"] IN
       tasks' = IF \A j \in DOMAIN after : after[j].pc = "collected"
                THEN << >> ELSE after
    /\ UNCHANGED <<config, mapped, download_stats, verify_report, lock, downloaded_urls, failed_urls, files, url_aliases, history>>


\* ------------------------------------------------------------------------
\* WebsiteDownloader (the basic class)
\* ------------------------------------------------------------------------
\* downloader.is_valid_url_scheme(url) on an object of class cls: neither
\* class defines the method, so the attribute lookup fails whatever the
\* argument is
is_valid_url_scheme(cls, url) == "AttributeError"

basic_is_internal_url(url) == url.netloc = domain \/ url.netloc = NoHost

basic_normalize_url(url) == unquote(split_fragment(url))

\* path + '_' + query.replace('&', '_').replace('=', '-'): the query goes
\* after the extension; the tokens of the query hold no '/'
basic_fold_query(path, query) ==
    IF query = <<>> THEN path
    ELSE [path EXCEPT ![Len(path)] =
             Seg(path[Len(path)].stem,
                 path[Len(path)].ext \o "_" \o
                    Join([k \in DOMAIN query |->
                            IF query[k] = "&" THEN "_"
                            ELSE IF query[k] = "=" THEN "-"
                            ELSE query[k]]))]

basic_url_to_filepath(url) ==
    LET p1 == IF url.path = <<>> \/ url.slash THEN Append(url.path, IndexHtml)
              ELSE url.path
        last == p1[Len(p1)]
    IN  basic_fold_query(
            IF last.ext = "" THEN [p1 EXCEPT ![Len(p1)] = Seg(last.stem, "html")]
            ELSE p1, url.query)

non_html_extensions ==
    {"css", "js", "jpg", "jpeg", "png", "gif", "svg", "ico", "pdf", "zip",
     "tar", "gz", "mp4", "mp3", "avi", "mov", "woff", "woff2", "ttf", "eot",
     "xml", "json"}

is_likely_html(url) == url.slash \/ suffix(url) \notin non_html_extensions

basic_selectors ==
    [a |-> "href", link |-> "href", script |-> "src", img |-> "src",
     source |-> "src", iframe |-> "src", embed |-> "src", object |-> "data"]

basic_extract_css_urls(css_content, base) ==
    {basic_normalize_url(urljoin(base, r.val)) :
        r \in {x \in css_content : x.attr \in CssForms}}

extract_links(html_content, base) ==
    LET refs == Range(html_content) IN
    {basic_normalize_url(urljoin(base, r.val)) :
        r \in {x \in refs : /\ x.ctx = "attr"
                            /\ x.tag \in DOMAIN basic_selectors
                            /\ x.attr = basic_selectors[x.tag]}}
    \cup basic_extract_css_urls({x \in refs : x.ctx = "styletag"}, base)

basic_convert_ref(r, current_url) ==
    IF /\ r.ctx = "attr"
       /\ r.tag \in DOMAIN basic_selectors
       /\ r.attr = basic_selectors[r.tag]
       /\ basic_is_internal_url(urljoin(current_url, r.val))
    THEN [r EXCEPT !.val =
            Rel(relpath(basic_url_to_filepath(
                            basic_normalize_url(urljoin(current_url, r.val))),
                        parent(basic_url_to_filepath(current_url))))]
    ELSE r

convert_links_in_html(html_content, current_url) ==
    [k \in DOMAIN html_content |-> basic_convert_ref(html_content[k], current_url)]

basic_LinkDepth(link, depth) == IF is_likely_html(link) THEN depth + 1 ELSE depth

\* the file name tests of download_website; no file name of the model has
\* "html" elsewhere than in its extension
IsHtmlFile(filepath) == filepath[Len(filepath)].ext \in {"html", "htm"}
IsCssFile(filepath)  == filepath[Len(filepath)].ext = "css"

\* one turn of the loop of download_website on a unit that is skipped
BasicSkip ==
    /\ impl = "basic"
    /\ url_queue # << >>
    /\ LET current_url == url_queue[1][1]
           depth       == url_queue[1][2]
       IN  \/ current_url \in downloaded_urls
           \/ depth > max_depth
           \/ ~ can_fetch(current_url)
    /\ url_queue' = Tail(url_queue)
    /\ UNCHANGED <<config, mapped, download_stats, verify_report, lock, downloaded_urls, failed_urls, files, url_aliases, tasks,
                   history>>

\* one turn of the loop on a unit whose download_file fails
BasicFail ==
    /\ impl = "basic"
    /\ url_queue # << >>
    /\ LET current_url == url_queue[1][1]
           depth       == url_queue[1][2]
       IN  /\ current_url \notin downloaded_urls
           /\ depth <= max_depth
           /\ can_fetch(current_url)
           /\ basic_url_to_filepath(current_url) \notin DOMAIN files
           /\ \/ current_url \in Flaky
              \/ current_url \notin SiteUrls
              \/ current_url.scheme \notin {"http", "https"}
           /\ failed_urls' = set_add(failed_urls, current_url)
           /\ fetch_count' = [fetch_count EXCEPT ![current_url] = @ + 1]
           /\ fetch_depths' = [fetch_depths EXCEPT ![current_url] = @ \cup {depth}]
    /\ basic_requests' = 1
    /\ url_queue' = Tail(url_queue)
    /\ UNCHANGED <<config, mapped, download_stats, verify_report, lock, downloaded_urls, files, url_aliases, tasks, unlocked, rewrites,
                   enqueues>>

\* one turn of the loop on a unit whose download_file succeeds (the file is
\* there already, or the request succeeds and the body is saved)
BasicOk ==
    /\ impl = "basic"
    /\ url_queue # << >>
    /\ LET current_url == url_queue[1][1]
           depth       == url_queue[1][2]
           filepath    == basic_url_to_filepath(current_url)
           content     == IF filepath \in DOMAIN files THEN files[filepath]
                          ELSE site_content(current_url)
           done        == set_add(downloaded_urls, current_url)
       IN  /\ current_url \notin downloaded_urls
           /\ depth <= max_depth
           /\ can_fetch(current_url)
           /\ \/ filepath \in DOMAIN files
              \/ /\ current_url.scheme \in {"http", "https"}
                 /\ current_url \in SiteUrls
           /\ downloaded_urls' = done
           /\ basic_requests' = IF filepath \in DOMAIN files THEN 0 ELSE 1
           /\ fetch_count' = [fetch_count EXCEPT ![current_url] = @ + 1]
           /\ fetch_depths' = [fetch_depths EXCEPT ![current_url] = @ \cup {depth}]
           /\ IF IsHtmlFile(filepath)
              THEN LET links == IF basic_is_internal_url(current_url)
                                THEN extract_links(content, current_url)
                                ELSE {}
                       new   == {l \in links : l \notin done /\ basic_is_internal_url(l)}
                       converted_html == convert_links_in_html(content, current_url)
                   IN  /\ \E order \in Orders(new) :
                             url_queue' = Tail(url_queue) \o
                                 [k \in DOMAIN order |->
                                     <<order[k], basic_LinkDepth(order[k], depth)>>]
                       /\ enqueues' = enqueues \cup
                             Enq("html", depth,
                                 {<<l, basic_LinkDepth(l, depth)>> : l \in new})
                       /\ files' = WriteFile(filepath, converted_html)
                       /\ rewrites' = rewrites \cup
                             {[url |-> current_url, before |-> content,
                               after |-> converted_html]}
              ELSE IF IsCssFile(filepath)
              THEN LET css_urls == basic_extract_css_urls(Range(content), current_url)
                       new == {l \in css_urls : l \notin done /\ basic_is_internal_url(l)}
                   IN  /\ \E order \in Orders(new) :
                             url_queue' = Tail(url_queue) \o
                                 [k \in DOMAIN order |-> <<order[k], depth>>]
                       /\ enqueues' = enqueues \cup
                             Enq("css", depth, {<<l, depth>> : l \in new})
                       /\ files' = WriteFile(filepath, content)
                       /\ UNCHANGED rewrites
              ELSE /\ url_queue' = Tail(url_queue)
                   /\ files' = WriteFile(filepath, content)
                   /\ UNCHANGED <<rewrites, enqueues>>
    /\ UNCHANGED <<config, mapped, download_stats, verify_report, lock, failed_urls, url_aliases, tasks, unlocked>>

\* ------------------------------------------------------------------------
\* CompletenessVerifier
\* ------------------------------------------------------------------------
\* for url in self.downloaded_urls: alias known and its file not there
missing_files_None == {}

missing_files ==
    {url \in downloaded_urls :
        url \in DOMAIN url_aliases /\ url_aliases[url] \notin DOMAIN files}

\* self.output_dir.rglob('*.html')
html_files == {f \in DOMAIN files : f[Len(f)].ext = "html"}

\* href.startswith(('http://', 'https://', 'mailto:', 'tel:'))
href_skipped(href) == href.scheme \in {"http", "https", "mailto", "tel"}

\* a directory of the mirror: the output directory or a directory a saved
\* file lies in
IsDir(path) ==
    \E f \in DOMAIN files : Len(f) > Len(path) /\ SubSeq(f, 1, Len(path)) = path

\* (html_file.parent / href).exists(): href is taken as a file name as it
\* is written, so one with a scheme, a host, a leading '/' or a fragment
\* names nothing in the mirror
target_exists(html_file, href) ==
    IF href.scheme # "" \/ href.netloc # NoHost \/ href.rooted \/ href.frag # ""
    THEN FALSE
    ELSE LET target_file == RemoveDots(<<>>, parent(html_file) \o href.path)
         IN  target_file \in DOMAIN files \/ IsDir(target_file)

\* soup.find_all(['a', 'link'], href=True)
verify_tags == {"a", "link"}

broken_links ==
    UNION {{<<f, r.val>> : r \in
               {x \in Range(files[f]) :
                   /\ x.ctx = "attr" /\ x.tag \in verify_tags /\ x.attr = "href"
                   /\ ~ href_skipped(x.val)
                   /\ ~ target_exists(f, x.val)}} : f \in html_files}

verify_completeness ==
    [ran     |-> TRUE,
     missing |-> missing_files,
     broken  |-> broken_links,
     result  |-> (missing_files = {} /\ broken_links = {})]

\* the verifier runs on the mirror once the crawl is over
VerifyCompleteness ==
    /\ impl = "advanced"
    /\ url_queue = << >>
    /\ tasks = << >>
    /\ ~ verify_report.ran
    /\ verify_report' = verify_completeness
    /\ UNCHANGED <<config, mapped, download_stats, lock, downloaded_urls, failed_urls, url_queue, files,
                   url_aliases, tasks, history>>

\* one turn of the loop on a unit whose download_file succeeds and whose
\* saved file cannot be read: the error is logged, the loop goes on
BasicProcessError ==
    /\ impl = "basic"
    /\ url_queue # << >>
    /\ LET current_url == url_queue[1][1]
           depth       == url_queue[1][2]
           filepath    == basic_url_to_filepath(current_url)
       IN  /\ current_url \notin downloaded_urls
           /\ depth <= max_depth
           /\ can_fetch(current_url)
           /\ current_url \in Fragile
           /\ IsHtmlFile(filepath) \/ IsCssFile(filepath)
           /\ \/ filepath \in DOMAIN files
              \/ /\ current_url.scheme \in {"http", "https"}
                 /\ current_url \in SiteUrls
           /\ downloaded_urls' = set_add(downloaded_urls, current_url)
           /\ basic_requests' = IF filepath \in DOMAIN files THEN 0 ELSE 1
           /\ fetch_count' = [fetch_count EXCEPT ![current_url] = @ + 1]
           /\ fetch_depths' = [fetch_depths EXCEPT ![current_url] = @ \cup {depth}]
           /\ files' = IF filepath \in DOMAIN files THEN files
                       ELSE WriteFile(filepath, site_content(current_url))
    /\ url_queue' = Tail(url_queue)
    /\ UNCHANGED <<config, mapped, download_stats, verify_report, lock, failed_urls, url_aliases, tasks, unlocked, rewrites,
                   enqueues>>

TaskIds == 1..(2 * MaxWorkers)

\* the steps of download_website
CrawlNext ==
    \/ FormBatch
    \/ \E i \in TaskIds : Start(i)
    \/ \E i \in TaskIds : BeginAttempt(i)
    \/ \E i \in TaskIds : GetOk(i)
    \/ \E i \in TaskIds : GetFail(i)
    \/ \E i \in TaskIds : StreamFail(i)
    \/ \E i \in TaskIds : Acquire(i)
    \/ \E i \in TaskIds : MarkDownloaded(i)
    \/ \E i \in TaskIds : MarkFailed(i)
    \/ \E i \in TaskIds : Collect(i)
    \/ \E i \in TaskIds : ProcessError(i)
    \/ BasicSkip
    \/ BasicFail
    \/ BasicProcessError
    \/ \E i \in TaskIds : Process(i)
    \/ BasicOk

Next ==
    \/ CrawlNext
    \/ VerifyCompleteness

Spec == Init /\ [][Next]_vars

\* the runs whose end is looked at: every run of the single-threaded
\* drivers, and the pool's runs with max_depth 0 (the root page, its
\* stylesheet and what the two embed)
InitFair == Init /\ (max_workers > 1 => max_depth = 0)

\* every call returns (requests time out, sleeps end) and the pool runs
\* what is submitted to it: a step that can be taken is taken
FairSpec == InitFair /\ [][Next]_vars /\ WF_vars(Next)

\* ------------------------------------------------------------------------
\* The worker pool on a long queue: download_threaded entered with more
\* units queued than one batch takes
\* ------------------------------------------------------------------------
\* the --delay values the pool is run with
Delays == {1, 2}

\* "https://example.com/login?next=/docs"
LoginUrl == WithQuery(Https(RootHost, <<Seg("login", "")>>), <<"next", "=", "/", "docs">>)

LongQueue(n) ==
    [k \in 1..n |-> << IF k = 1 THEN ImgPng
                       ELSE IF k = 2 THEN PageA
                       ELSE IF k = 3 THEN LoginUrl
                       ELSE IF k % 2 = 1 THEN ThemePhp
                       ELSE base_url, 0 >>]

InitPool ==
    /\ impl = "advanced"
    /\ max_depth = 0
    /\ max_workers = MaxWorkers
    /\ delay \in Delays
    /\ site_variant = "styled"
    /\ include_subdomains = FALSE
    /\ force_redownload = FALSE
    /\ robots_txt = "served"
    /\ denied = {SubPage, ThemePhp}
    /\ downloaded_urls = {base_url}
    /\ failed_urls = {}
    /\ download_stats = NoStats
    /\ \E n \in 1..(2 * MaxWorkers + 2) : url_queue = LongQueue(n)
    /\ files = [f \in {url_to_filepath(base_url)} |->
                   convert_links_advanced(site_content(base_url), base_url, "html")]
    /\ url_aliases = StoreAliases(<< >>, {base_url})
    /\ verify_report = NotVerified
    /\ tasks = << >>
    /\ lock = 0
    /\ unlocked = {}
    /\ fetch_count = [u \in AllUrls |-> 0]
    /\ fetch_depths = [u \in AllUrls |-> {}]
    /\ rewrites = {}
    /\ enqueues = {}
    /\ basic_requests = 0
    /\ mapped = {}

\* the steps of download_threaded and of its threads
PoolNext ==
    \/ \E i \in TaskIds : Collect(i)
    \/ \E i \in TaskIds : ProcessError(i)
    \/ FormBatch
    \/ \E i \in TaskIds : BeginAttempt(i)
    \/ \E i \in TaskIds : GetOk(i)
    \/ \E i \in TaskIds : GetFail(i)
    \/ \E i \in TaskIds : StreamFail(i)
    \/ \E i \in TaskIds : Acquire(i)
    \/ \E i \in TaskIds : MarkDownloaded(i)
    \/ \E i \in TaskIds : MarkFailed(i)
    \/ \E i \in TaskIds : Start(i)
    \/ \E i \in TaskIds : Process(i)

SpecPool == InitPool /\ [][PoolNext]_vars

\* ------------------------------------------------------------------------
\* The path mapping on its own: url_to_filepath called on the URLs of a
\* frontier
\* ------------------------------------------------------------------------
\* "https://example.com/" next to the seed "https://example.com"
RootSlash == [base_url EXCEPT !.rooted = TRUE]

PathUrls ==
    {base_url, RootSlash, PageA, ImgPng, LoginUrl,
     Https(RootHost, <<Seg("docs", ""), Seg("a", "html")>>),
     Https(RootHost, <<Seg("index", "html")>>),
     [Https(RootHost, <<Seg("docs", "")>>) EXCEPT !.slash = TRUE],
     WithQuery(Https(RootHost, <<Seg("page", "html")>>), <<"param", "=", "value">>),
     WithQuery(Https(RootHost, <<Seg("page", "html")>>), <<"a", "=", "1", "&", "b", "=", "2">>),
     Https(RootHost, <<Seg("page_param-value", "html")>>)}

InitPaths ==
    /\ impl \in {"advanced", "basic"}
    /\ max_depth = 0
    /\ max_workers = 1
    /\ delay = 1
    /\ site_variant = "styled"
    /\ include_subdomains = FALSE
    /\ force_redownload = FALSE
    /\ robots_txt = "served"
    /\ denied = {SubPage, ThemePhp}
    /\ downloaded_urls = {}
    /\ failed_urls = {}
    /\ download_stats = NoStats
    /\ \E u1, u2 \in PathUrls :
          /\ url_queue = << <<u1, 0>>, <<u2, 0>> >>
          /\ impl = "basic" => ~ (url_to_filepath_raises(u1) \/ url_to_filepath_raises(u2))
    /\ files = << >>
    /\ url_aliases = << >>
    /\ verify_report = NotVerified
    /\ tasks = << >>
    /\ lock = 0
    /\ unlocked = {}
    /\ fetch_count = [u \in AllUrls |-> 0]
    /\ fetch_depths = [u \in AllUrls |-> {}]
    /\ rewrites = {}
    /\ enqueues = {}
    /\ basic_requests = 0
    /\ mapped = {}

Returned(url, path) == [url |-> url, raised |-> FALSE, path |-> path]
Raised(url)         == [url |-> url, raised |-> TRUE, path |-> << >>]

\* downloader.url_to_filepath(url) on an AdvancedWebsiteDownloader
MapUrl ==
    /\ impl = "advanced"
    /\ \E k \in DOMAIN url_queue :
          LET url == url_queue[k][1] IN
          /\ \A m \in mapped : m.url # url
          /\ IF url_to_filepath_raises(url)
             THEN /\ mapped' = mapped \cup {Raised(url)}
                  /\ UNCHANGED url_aliases
             ELSE /\ mapped' = mapped \cup {Returned(url, url_to_filepath(url))}
                  /\ url_aliases' = StoreAliases(url_aliases, {url})
    /\ UNCHANGED <<config, download_stats, verify_report, lock, downloaded_urls, failed_urls, url_queue,
                   files, tasks, history>>

\* downloader.url_to_filepath(url) on a WebsiteDownloader
BasicMapUrl ==
    /\ impl = "basic"
    /\ \E k \in DOMAIN url_queue :
          LET url == url_queue[k][1] IN
          /\ \A m \in mapped : m.url # url
          /\ mapped' = mapped \cup {Returned(url, basic_url_to_filepath(url))}
    /\ UNCHANGED <<config, download_stats, verify_report, lock, downloaded_urls, failed_urls, url_queue,
                   files, url_aliases, tasks, history>>

PathsNext == MapUrl \/ BasicMapUrl

SpecPaths == InitPaths /\ [][PathsNext]_vars

\* ------------------------------------------------------------------------
\* A second run over the output directory of an earlier run that has saved
\* and rewritten /docs/a before it was stopped
\* ------------------------------------------------------------------------
\* the file the earlier run has left for PageA
RewrittenPage ==
    IF impl = "advanced" THEN convert_links_advanced(site_content(PageA), PageA, "html")
    ELSE convert_links_in_html(site_content(PageA), PageA)

\* the URLs the references of that file stand for when it is read again
RerunUrls ==
    {normalize_url(urljoin(PageA, site_content(PageA)[k].val)) :
        k \in DOMAIN site_content(PageA)}
    \cup {normalize_url(urljoin(PageA, RewrittenPage[k].val)) : k \in DOMAIN RewrittenPage}

InitRerun ==
    /\ impl \in {"advanced", "basic"}
    /\ max_depth \in 1..MaxDepthBound
    /\ max_workers = 1
    /\ delay = 1
    /\ site_variant = "styled"
    /\ include_subdomains = FALSE
    /\ force_redownload = FALSE
    /\ robots_txt = "served"
    /\ denied = {SubPage, ThemePhp}
    /\ downloaded_urls = {}
    /\ failed_urls = {}
    /\ download_stats = NoStats
    /\ url_queue = << <<base_url, 0>> >>
    /\ files = [f \in {IF impl = "advanced" THEN url_to_filepath(PageA)
                       ELSE basic_url_to_filepath(PageA)} |-> RewrittenPage]
    /\ url_aliases = << >>
    /\ verify_report = NotVerified
    /\ tasks = << >>
    /\ lock = 0
    /\ unlocked = {}
    /\ fetch_count = [u \in AllUrls \cup RerunUrls |-> 0]
    /\ fetch_depths = [u \in AllUrls \cup RerunUrls |-> {}]
    /\ rewrites = {}
    /\ enqueues = {}
    /\ basic_requests = 0
    /\ mapped = {}

SpecRerun == InitRerun /\ [][CrawlNext]_vars

\* ------------------------------------------------------------------------
\* The extractor on its own: download_worker after the download of a page or
\* of a stylesheet made of up to MaxRefs references, data: URIs among them
\* ------------------------------------------------------------------------
\* "data:image/png;base64,iVBORw0KGgo="
DataUri == Url("data", NoHost, FALSE,
               <<Seg("image", ""), Seg("png;base64,iVBORw0KGgo=", "")>>, FALSE, "")

HtmlRefs ==
    {AttrRef("img", "src", DataUri),
     AttrRef("img", "src", Abs(ImgPng.path)),
     CssRef("inline", "url", DataUri),
     CssRef("styletag", "url", DataUri),
     CssRef("styletag", "url", Abs(ImgPng.path))}

CssFileRefs ==
    {CssRef("css", "url", DataUri),
     CssRef("css", "import_url", DataUri),
     CssRef("css", "url", Abs(ImgPng.path))}

Documents(refs) == UNION {[1..n -> refs] : n \in 0..MaxRefs}

InitExtract ==
    /\ impl = "advanced"
    /\ max_depth = 1
    /\ max_workers = 1
    /\ delay = 1
    /\ site_variant = "styled"
    /\ include_subdomains = FALSE
    /\ force_redownload = FALSE
    /\ robots_txt = "served"
    /\ denied = {SubPage, ThemePhp}
    /\ failed_urls = {}
    /\ download_stats = NoStats
    /\ url_queue = << >>
    /\ \E url \in {PageA, StyleCss} :
       \E doc \in Documents(IF url = PageA THEN HtmlRefs ELSE CssFileRefs) :
          /\ downloaded_urls = {base_url, url}
          /\ files = [f \in {url_to_filepath(url)} |-> doc]
          /\ url_aliases = StoreAliases(<< >>, {url})
          /\ tasks = << [NewTask(<<url, 1>>) EXCEPT !.pc = "fetched", !.result = "ok",
                                                   !.requests = 1] >>
    /\ verify_report = NotVerified
    /\ lock = 0
    /\ unlocked = {}
    /\ fetch_count = [u \in AllUrls |-> 0]
    /\ fetch_depths = [u \in AllUrls |-> {}]
    /\ rewrites = {}
    /\ enqueues = {}
    /\ basic_requests = 0
    /\ mapped = {}

ExtractNext ==
    \/ \E i \in TaskIds : Process(i)
    \/ \E i \in TaskIds : Collect(i)

SpecExtract == InitExtract /\ [][ExtractNext]_vars

\* ------------------------------------------------------------------------
\* The verifier on its own: verify_completeness applied to the mirror of a
\* finished crawl from which any of the files may since have been removed
\* ------------------------------------------------------------------------
StylePath  == <<Seg("style", "css")>>
ImagePath  == <<Seg("image", "jpg")>>
Page2Path  == <<Seg("docs", ""), Seg("page2", "html")>>
VerifyUrls == {base_url, Https(RootHost, StylePath), Https(RootHost, ImagePath),
               Https(RootHost, Page2Path)}

\* the saved, already rewritten, content of the mirror's files
mirror_content(filepath) ==
    IF filepath = <<IndexHtml>> THEN
        << AttrRef("link", "href", Rel(StylePath)),
           AttrRef("img", "src", Rel(ImagePath)),
           AttrRef("a", "href", Rel(Page2Path)),
           AttrRef("a", "href", OtherCss),
           AttrRef("a", "href", MailTo) >>
    ELSE IF filepath = Page2Path THEN
        << AttrRef("a", "href", Rel(<<DotDot, IndexHtml>>)),
           AttrRef("img", "src", Rel(<<DotDot>> \o ImagePath)) >>
    ELSE << >>

InitVerify ==
    /\ impl = "advanced"
    /\ max_depth = MaxDepthBound
    /\ max_workers = 1
    /\ delay = 1
    /\ site_variant = "styled"
    /\ include_subdomains = FALSE
    /\ force_redownload = FALSE
    /\ robots_txt = "absent"
    /\ denied = {}
    /\ downloaded_urls \in SUBSET VerifyUrls
    /\ failed_urls = VerifyUrls \ downloaded_urls
    /\ download_stats = NoStats
    /\ url_queue = << >>
    /\ \E kept \in SUBSET {url_to_filepath(u) : u \in VerifyUrls} :
          files = [f \in kept |-> mirror_content(f)]
    /\ url_aliases = StoreAliases(<< >>, VerifyUrls)
    /\ verify_report = NotVerified
    /\ tasks = << >>
    /\ lock = 0
    /\ unlocked = {}
    /\ fetch_count = [u \in AllUrls |-> 0]
    /\ fetch_depths = [u \in AllUrls |-> {}]
    /\ rewrites = {}
    /\ enqueues = {}
    /\ basic_requests = 0
    /\ mapped = {}

SpecVerify == InitVerify /\ [][VerifyCompleteness]_vars

\* ------------------------------------------------------------------------
\* Properties
\* ------------------------------------------------------------------------
Ids == DOMAIN tasks

\* task i returns from download_file_with_retry in this step, with result r
Returns(i, r) ==
    /\ i \in DOMAIN tasks /\ i \in DOMAIN tasks'
    /\ tasks[i].result = "none"
    /\ tasks'[i].result = r

\* task i issues a request (session.get) in this step
Requests(i) ==
    /\ i \in DOMAIN tasks /\ i \in DOMAIN tasks'
    /\ tasks[i].pc = "attempt"
    /\ tasks'[i].pc = "get"

\* C1: duplicate suppression - of all the units dequeued for one URL, at
\* most one goes on to a fetch (a call of download_file_with_retry); the
\* others are skipped.
C1_DuplicateSuppression == \A u \in AllUrls : fetch_count[u] <= 1

\* C2: retry exhaustion - when download_file_with_retry returns failure it
\* has made exactly 3 attempts, and at that moment the URL is in failed_urls
\* and not in downloaded_urls.
C2_RetryExhaustion ==
    [][\A i \in TaskIds : Returns(i, "failed") =>
          /\ tasks'[i].attempt + 1 = 3
          /\ tasks[i].url \in failed_urls'
          /\ tasks[i].url \notin downloaded_urls']_vars

\* C3: retry success - when attempt k (1..3) of download_file_with_retry
\* succeeds after k-1 failed ones, the call returns success at once, with
\* exactly k attempts made, and at that moment the URL is in
\* downloaded_urls and not in failed_urls.
C3_RetrySuccess ==
    [][\A i \in TaskIds : Returns(i, "ok") =>
          /\ tasks'[i].attempt = tasks[i].attempt
          /\ tasks'[i].attempt + 1 \in 1..3
          /\ tasks'[i].pc = "fetched"
          /\ tasks[i].url \in downloaded_urls'
          /\ tasks[i].url \notin failed_urls']_vars

\* C4: once a URL is in failed_urls, no unit for it goes on to a fetch and
\* no request for it is issued for the rest of the run.
C4_FailedNeverRetried ==
    [][\A i \in TaskIds :
          /\ (i \in DOMAIN tasks /\ i \in DOMAIN tasks'
              /\ tasks[i].pc = "submitted" /\ tasks'[i].pc = "attempt")
                => tasks[i].url \notin failed_urls
          /\ Requests(i) => tasks[i].url \notin failed_urls]_vars

\* the running class's own operations
TheInternal(u)   == IF impl = "basic" THEN basic_is_internal_url(u)
                    ELSE is_internal_url(u)
TheFilepath(u)   == IF impl = "basic" THEN basic_url_to_filepath(u)
                    ELSE url_to_filepath(u)
TheNormalize(u)  == IF impl = "basic" THEN basic_normalize_url(u)
                    ELSE normalize_url(u)
TheExtract(c, b) == IF impl = "basic" THEN extract_links(c, b)
                    ELSE extract_links_advanced(c, b)
\* the driver's html test for a discovered link
ClassifiedHtml(u) == IF impl = "basic" THEN is_likely_html(u)
                     ELSE get_asset_type(u) = "html"

C6_DepthLimit ==
    /\ \A u \in AllUrls : \A d \in fetch_depths[u] : d <= max_depth
    /\ \A i \in Ids : tasks[i].depth > max_depth =>
          /\ tasks[i].pc \in {"submitted", "done", "collected"}
          /\ tasks[i].result = "none"
          /\ tasks[i].new_urls = << >>
    /\ \A u \in downloaded_urls \cup failed_urls :
          \E d \in fetch_depths[u] : d <= max_depth

C6_Witness ==
    \E i \in Ids : /\ tasks[i].depth > max_depth
                   /\ tasks[i].pc = "done"
                   /\ tasks[i].url \notin downloaded_urls \cup failed_urls

\* C7: every URL in the work queue, in a unit being handled, in
\* downloaded_urls or in failed_urls has scheme http or https.
C7_FrontierSchemes ==
    /\ \A k \in DOMAIN url_queue : url_queue[k][1].scheme \in {"http", "https"}
    /\ \A i \in Ids : tasks[i].url.scheme \in {"http", "https"}
    /\ \A u \in downloaded_urls \cup failed_urls : u.scheme \in {"http", "https"}

\* hosts the scope rule is tried on, besides those of the site
ScopeHosts ==
    {RootHost, SubHost, OtherHost, BadHost, <<"a", "sub", "example", "com">>,
     <<"com">>, <<"example">>, <<"example", "com", "org">>}

ScopeInputs ==
    {Https(h, <<Seg("x", "html")>>) : h \in ScopeHosts}
    \cup {u \in AllUrls : u.netloc # NoHost}

\* h = <labels> . H with at least one label in front
IsProperSubdomain(h, H) ==
    \E k \in 1..(Len(h) - 1) : [j \in 1..(Len(h) - k) |-> h[k + j]] = H

Resolved(r, base) == TheNormalize(urljoin(base, r.val))

\* the six kinds of reference the claim lists
ListedKind(r) ==
    \/ r.ctx = "attr" /\ <<r.tag, r.attr>> \in
          {<<"a", "href">>, <<"link", "href">>, <<"img", "src">>, <<"script", "src">>}
    \/ r.ctx \in {"inline", "styletag"} /\ r.attr \in CssForms

\* C9: for every html page handed to the extractor, the result contains
\* the resolved URL of every in-domain anchor, stylesheet link, image,
\* script, inline-style and <style>-block reference, and contains no
\* mailto: URL, no tel: URL and no out-of-domain anchor target.
C9_ExtractionFiltering ==
    \A rw \in rewrites : IsHtmlFile(TheFilepath(rw.url)) =>
        LET links == TheExtract(rw.before, rw.url) IN
        /\ \A k \in DOMAIN rw.before :
              LET r == rw.before[k]
                  t == Resolved(r, rw.url)
              IN  /\ (ListedKind(r) /\ t.netloc = domain
                        /\ t.scheme \in {"http", "https"}) => t \in links
                  /\ (r.ctx = "attr" /\ r.tag = "a" /\ t.netloc \notin {domain, NoHost})
                        => t \notin links
        /\ \A l \in links : l.scheme \notin {"mailto", "tel"}

\* C10: in every rewrite of a page at URL c, a reference whose resolved,
\* normalized target t is in scope has become the relative path from the
\* directory of url_to_filepath(c) to url_to_filepath(t), and a reference
\* whose target is out of scope is as it was.
C10_RewriteCorrectness ==
    \A rw \in rewrites : \A k \in DOMAIN rw.before :
        LET r == rw.before[k]
            t == Resolved(r, rw.url)
        IN  IF TheInternal(t)
            THEN rw.after[k].val =
                    Rel(relpath(TheFilepath(t), parent(TheFilepath(rw.url))))
            ELSE rw.after[k].val = r.val

IsReference(r) ==
    r.ctx = "attr" /\ r.tag \in DOMAIN extract_selectors
                   /\ r.attr \in extract_selectors[r.tag]

\* the file a relative reference written in html_file points to
ResolvesTo(html_file, ref) == RemoveDots(<<>>, parent(html_file) \o ref.path)

\* the references the claim calls broken: in a saved html file, not
\* external (no host), not of a special scheme, and with no file at the
\* place they point to
ClaimedBroken ==
    UNION {{<<f, r.val>> : r \in
               {x \in Range(files[f]) :
                   /\ IsReference(x)
                   /\ x.val.scheme = "" /\ x.val.netloc = NoHost
                   /\ ResolvesTo(f, x.val) \notin DOMAIN files}} : f \in html_files}

\* C12: verify_completeness reports as broken exactly the non-external,
\* non-special-scheme references of the saved html files that do not point
\* to an existing file - a missing image as well as a missing page - and
\* returns false when there is one.
C12_BrokenLinks ==
    verify_report.ran =>
        /\ verify_report.broken = ClaimedBroken
        /\ ClaimedBroken # {} => ~ verify_report.result

BasicFetches(url, depth) ==
    /\ impl = "basic"
    /\ url_queue # << >> /\ url_queue[1] = <<url, depth>>
    /\ url_queue' # url_queue
    /\ url \notin downloaded_urls /\ depth <= max_depth /\ can_fetch(url)

\* task i makes the first call of download_file for its unit
FirstAttempt(i) ==
    /\ i \in DOMAIN tasks /\ i \in DOMAIN tasks'
    /\ tasks[i].pc = "attempt" /\ tasks[i].attempt = 0
    /\ tasks'[i].pc # "attempt"

\* C14: if the mapped file of a URL exists when its fetch starts, then with
\* force_redownload off the fetch returns success without any request and
\* the URL is in downloaded_urls, and with force_redownload on a request
\* is made.
C14_AlreadyPresent ==
    /\ [][\A i \in TaskIds :
             (FirstAttempt(i) /\ url_to_filepath(tasks[i].url) \in DOMAIN files) =>
                 IF force_redownload
                 THEN tasks'[i].pc = "get" /\ tasks'[i].requests = 1
                 ELSE tasks'[i].pc = "mark_ok" /\ tasks'[i].requests = 0]_vars
    /\ [](\A i \in DOMAIN tasks :
             (tasks[i].existed /\ ~ force_redownload) =>
                 /\ tasks[i].requests = 0
                 /\ tasks[i].pc \in {"mark_ok", "locked_ok", "fetched", "done", "collected"}
                 /\ tasks[i].pc \in {"fetched", "done", "collected"} =>
                        tasks[i].result = "ok" /\ tasks[i].url \in downloaded_urls)
    /\ [][\A u \in AllUrls : \A dp \in 0..(MaxDepthBound + 1) :
             (BasicFetches(u, dp) /\ basic_url_to_filepath(u) \in DOMAIN files) =>
                 basic_requests' = 0 /\ u \in downloaded_urls']_vars

\* a unit whose file was there has returned success with no request made
C14_Witness ==
    /\ ~ force_redownload
    /\ \E i \in Ids : /\ tasks[i].existed /\ tasks[i].result = "ok"
                       /\ tasks[i].requests = 0
                       /\ tasks[i].url \in downloaded_urls

\* the rules of robots.txt are in force and disallow u
Disallowed(u) == robots_txt = "served" /\ u \in denied

\* C15: a unit whose URL robots.txt disallows is never fetched, hands no
\* URL to the queue and is skipped: no request is made for it, it is never
\* read or rewritten, and its URL comes into neither downloaded_urls nor
\* failed_urls.
C15_PolicyDenial ==
    \A u \in AllUrls : Disallowed(u) =>
        /\ fetch_count[u] = 0
        /\ u \notin downloaded_urls \cup failed_urls
        /\ TheFilepath(u) \notin DOMAIN files
        /\ \A rw \in rewrites : rw.url # u
        /\ \A i \in Ids : tasks[i].url = u =>
              /\ tasks[i].pc \in {"submitted", "done", "collected"}
              /\ tasks[i].result = "none" /\ tasks[i].requests = 0
              /\ tasks[i].new_urls = << >>

\* a disallowed unit within the depth limit has been dequeued and skipped
C15_Witness ==
    \E i \in Ids : /\ Disallowed(tasks[i].url)
                   /\ tasks[i].depth <= max_depth
                   /\ tasks[i].pc = "done"
                   /\ tasks[i].url \notin downloaded_urls \cup failed_urls

\* C16: when robots.txt is absent or cannot be parsed, can_fetch is true
\* for every URL during the whole run, so no unit within the depth limit
\* is skipped except as a duplicate of a downloaded URL.
C16_RobotsDegradation ==
    robots_txt \in {"absent", "unparsable"} =>
        /\ \A u \in AllUrls \cup ScopeInputs : can_fetch(u)
        /\ \A i \in Ids :
              (tasks[i].pc = "done" /\ tasks[i].result = "none"
                 /\ tasks[i].depth <= max_depth) =>
                    tasks[i].url \in downloaded_urls

\* without rules in force, a URL the rules name has been downloaded
C16_Witness ==
    /\ robots_txt \in {"absent", "unparsable"}
    /\ \E u \in denied : u \in downloaded_urls /\ fetch_count[u] > 0

\* C17: when no file was at the mapped path before the fetch of a URL and
\* the fetch ends in failure, no file is at the mapped path afterwards.
C17_NoFileOnFailure ==
    /\ [](\A i \in Ids :
             (tasks[i].result = "failed" /\ ~ tasks[i].existed) =>
                 url_to_filepath(tasks[i].url) \notin DOMAIN files)
    /\ [][\A u \in AllUrls : \A dp \in 0..(MaxDepthBound + 1) :
             (BasicFetches(u, dp) /\ u \in failed_urls' \ failed_urls
                /\ basic_url_to_filepath(u) \notin DOMAIN files) =>
                    basic_url_to_filepath(u) \notin DOMAIN files']_vars

\* the frontier is empty and no unit is in flight
Exhausted == url_queue = << >> /\ tasks = << >>

C20_MonotoneSets ==
    [][downloaded_urls \subseteq downloaded_urls' /\ failed_urls \subseteq failed_urls']_vars

\* both sets hold something and the crawl is still going on
C20_Witness ==
    /\ Cardinality(downloaded_urls) >= 2
    /\ failed_urls # {}
    /\ ~ Exhausted

\* the arguments of the tests of is_valid_url_scheme
SchemeInputs ==
    {Https(RootHost, <<>>),
     Url("http", RootHost, FALSE, <<>>, FALSE, ""),
     MailTo,
     Url("tel", NoHost, FALSE, <<Seg("+1234567890", "")>>, FALSE, ""),
     Url("javascript", NoHost, FALSE, <<Seg("void(0)", "")>>, FALSE, ""),
     Url("data", NoHost, FALSE, <<Seg("text", ""), Seg("plain;base64,SGVsbG8=", "")>>,
         FALSE, ""),
     Url("ftp", <<"ftp", "example", "com">>, FALSE, <<>>, FALSE, ""),
     Url("file", NoHost, TRUE, <<Seg("local", ""), Seg("file", "txt")>>, FALSE, ""),
     Rel(<<>>),
     Rel(<<Seg("not-a-url", "")>>)}

\* C21: is_valid_url_scheme answers True for every http and https URL and
\* False for mailto:, tel:, javascript:, data:, ftp: and file: URLs, for the
\* empty string and for a string without a scheme.
C21_SchemeFiltering ==
    \A u \in SchemeInputs :
        is_valid_url_scheme(impl, u) =
            IF u.scheme \in {"http", "https"} THEN "True" ELSE "False"

\* C22: in the worker pool no two units have a request for the same URL
\* under way at the same time.
C22_AtomicCheckThenAct ==
    max_workers > 1 =>
        \A i, j \in DOMAIN tasks :
            (i # j /\ tasks[i].pc = "get" /\ tasks[j].pc = "get")
                => tasks[i].url # tasks[j].url

\* C23: in the worker pool a thread reads and writes the shared
\* structures (downloaded_urls, failed_urls, url_aliases) only while it
\* holds the lock.
C23_LockDiscipline == max_workers > 1 => unlocked = {}

\* C24: the lock is held only by a unit that is inside one of the locked
\* sections (the insertion into downloaded_urls or failed_urls): never
\* during a request, a backoff, the saving of a file, the extraction and
\* rewriting or the delay, and never after the unit has ended.
C24_LockScope ==
    /\ lock # 0 =>
          /\ lock \in DOMAIN tasks
          /\ tasks[lock].pc \in {"locked_ok", "locked_failed"}
    /\ \A i \in DOMAIN tasks :
          tasks[i].pc \in {"locked_ok", "locked_failed"} => lock = i

\* in the pool one unit is inside a locked section while another has its
\* request under way, is being processed or waits for the lock
C24_Witness ==
    /\ max_workers > 1
    /\ lock # 0
    /\ \E j \in DOMAIN tasks :
          tasks[j].pc \in {"get", "fetched", "mark_ok", "mark_failed"}

\* the units of the current batch that a pool thread is running
Executing == {i \in DOMAIN tasks : Running(tasks[i])}

\* C25: in the worker pool a batch is the first min(queue length,
\* 2 * max_workers) units of the queue, no batch is formed while a unit of
\* the batch before is not collected, and so at most 2 * max_workers units
\* are in flight and at most max_workers are running.
C25_BoundedBatches ==
    /\ [](max_workers > 1 =>
            /\ Len(tasks) <= 2 * max_workers
            /\ Cardinality(Executing) <= max_workers)
    /\ [][max_workers > 1 =>
            /\ (tasks = << >> /\ tasks' # << >>) =>
                  /\ Len(tasks') = Min(Len(url_queue), 2 * max_workers)
                  /\ [k \in DOMAIN tasks' |-> <<tasks'[k].url, tasks'[k].depth>>]
                         \o url_queue' = url_queue
            /\ (tasks # << >> /\ tasks' # << >>) =>
                  /\ Len(tasks') = Len(tasks)
                  /\ \A k \in DOMAIN tasks : tasks'[k].url = tasks[k].url
            /\ (tasks # << >> /\ tasks' = << >>) =>
                  \A k \in DOMAIN tasks :
                      tasks[k].pc \in {"done", "raised", "collected"}]_vars

\* a full batch has been taken from a queue that holds more, and as many
\* units as there are threads are running
C25_Witness ==
    /\ max_workers > 1
    /\ Len(tasks) = 2 * max_workers
    /\ url_queue # << >>
    /\ Cardinality(Executing) = max_workers

\* C26: in the worker pool the queue changes only in a step of the driver:
\* when it takes a batch from the head, and when it takes the result of a
\* unit whose download_worker call is over, appending at once all that the
\* unit found; for a unit that ended with an exception nothing is appended.
C26_PerUnitMerge ==
    [][max_workers > 1 =>
        /\ url_queue' # url_queue =>
              \/ /\ tasks = << >> /\ tasks' # << >>
                 /\ \E n \in 1..Len(url_queue) :
                       url_queue' = SubSeq(url_queue, n + 1, Len(url_queue))
              \/ \E i \in DOMAIN tasks :
                    /\ tasks[i].pc = "done"
                    /\ tasks' = << >> \/ tasks' = [tasks EXCEPT ![i].pc = "collected"]
                    /\ url_queue' = url_queue \o tasks[i].new_urls
        /\ \A i \in DOMAIN tasks :
              /\ (tasks[i].pc # "collected"
                    /\ (tasks' = << >> \/ tasks'[i].pc = "collected")) =>
                       tasks[i].pc \in {"done", "raised"}
              /\ (tasks[i].pc = "raised"
                    /\ (tasks' = << >> \/ tasks'[i].pc = "collected")) =>
                       url_queue' = url_queue]_vars

\* the driver has taken the results of a unit that found URLs, which are
\* now the end of the queue, and of a unit that ended with an exception
C26_Witness ==
    /\ max_workers > 1
    /\ \E i, j \in DOMAIN tasks :
          /\ tasks[i].pc = "collected" /\ tasks[i].new_urls # << >>
          /\ Len(url_queue) >= Len(tasks[i].new_urls)
          /\ SubSeq(url_queue, Len(url_queue) - Len(tasks[i].new_urls) + 1,
                    Len(url_queue)) = tasks[i].new_urls
          /\ tasks[j].pc = "collected" /\ tasks[j].result = "raised"

\* C27: the URL of a unit that is being handled by AdvancedWebsiteDownloader
\* (fetched, saved, links extracted, file rewritten) is not in
\* downloaded_urls: it is put there only when all of that is over.
C27_OrderOfMarking ==
    impl = "advanced" =>
        \A i \in DOMAIN tasks : Running(tasks[i]) => tasks[i].url \notin downloaded_urls

\* C28: the sleep that follows the failed attempt number a of a unit, when
\* another attempt follows, is delay * 2^a; after the last attempt there
\* is none.
C28_BackoffSchedule ==
    \A i \in DOMAIN tasks :
        /\ Len(tasks[i].slept) = tasks[i].attempt
        /\ tasks[i].attempt <= max_retries - 1
        /\ \A a \in 0..(Len(tasks[i].slept) - 1) : tasks[i].slept[a + 1] = delay * 2 ^ a

\* C29: two different normalized URLs of one frontier, the seed as the
\* driver stores it among them, are given different paths by
\* AdvancedWebsiteDownloader.url_to_filepath.
C29_InjectivePaths ==
    impl = "advanced" =>
        \A m1, m2 \in mapped :
            (/\ m1.url # m2.url
             /\ normalize_url(m1.url) = m1.url /\ normalize_url(m2.url) = m2.url
             /\ ~ m1.raised /\ ~ m2.raised)
            => m1.path # m2.path

\* the mapping as the rules give it: index.html for the root and for a path
\* ending in '/', .html after an extensionless name of type html, the query
\* with '&' as '_' and '=' as '-' joined to the stem by '_'
PathRules(url) ==
    LET p1 == IF url.path = <<>> THEN <<IndexHtml>>
              ELSE IF url.slash THEN Append(url.path, IndexHtml)
              ELSE url.path
        p2 == IF p1[Len(p1)].ext = "" /\ get_asset_type(url) = "html"
              THEN [p1 EXCEPT ![Len(p1)] = Seg(p1[Len(p1)].stem, "html")]
              ELSE p1
        q  == Join([k \in DOMAIN url.query |->
                      IF url.query[k] = "&" THEN "_"
                      ELSE IF url.query[k] = "=" THEN "-"
                      ELSE url.query[k]])
    IN  IF url.query = <<>> THEN p2
        ELSE [p2 EXCEPT ![Len(p2)] = Seg(p2[Len(p2)].stem \o "_" \o q, p2[Len(p2)].ext)]

\* C30: url_to_filepath, of either class, gives every URL the path of the
\* rules: index.html for the root, index.html below a path ending in '/',
\* .html after an extensionless html name, the query folded into the stem
\* before the extension.
C30_PathRules ==
    \A m \in mapped : ~ m.raised /\ m.path = PathRules(m.url)

\* C31: when the processing of a fetched unit ends, a unit of type html or
\* css (whose saved file could be read) has had its file rewritten in
\* place, and a unit of any other type has left its file and the queue as
\* they were: nothing is rewritten and nothing is handed to the queue.
C31_PostProcessingScope ==
    [][/\ \A i \in TaskIds :
             (/\ i \in DOMAIN tasks /\ i \in DOMAIN tasks'
              /\ tasks[i].pc = "fetched" /\ tasks'[i].pc = "done") =>
                 LET u    == tasks[i].url
                     path == url_to_filepath(u)
                 IN  IF get_asset_type(u) \in {"html", "css"}
                     THEN u \notin Fragile =>
                             \E rw \in rewrites' :
                                 /\ rw.url = u /\ rw.before = files[path]
                                 /\ files'[path] = rw.after
                     ELSE /\ files' = files /\ rewrites' = rewrites
                          /\ enqueues' = enqueues /\ tasks'[i].new_urls = << >>
       /\ \A u \in AllUrls : \A dp \in 0..(MaxDepthBound + 1) :
             (BasicFetches(u, dp) /\ u \in downloaded_urls') =>
                 LET path == basic_url_to_filepath(u) IN
                 IF IsHtmlFile(path) \/ IsCssFile(path)
                 THEN u \notin Fragile =>
                         \E rw \in rewrites' \ rewrites :
                             rw.url = u /\ files'[path] = rw.after
                 ELSE /\ rewrites' = rewrites /\ enqueues' = enqueues
                      /\ url_queue' = Tail(url_queue)]_vars

\* the Rewriter of the class in use, applied to a saved document of url
Rewriter(content, url) ==
    IF impl = "advanced"
    THEN convert_links_advanced(content, url, get_asset_type(url))
    ELSE convert_links_in_html(content, url)

\* C32: every rewrite of a run reads the content as it was fetched from the
\* site, so no file is rewritten a second time from its rewritten content,
\* and the Rewriter applied to what it has written gives the same content.
C32_RewriteOnce ==
    \A rw \in rewrites :
        /\ rw.before = site_content(rw.url)
        /\ Rewriter(rw.after, rw.url) = rw.after

\* C33: no URL of scheme data: is in what a unit has extracted, whether the
\* value stood in an element attribute, a style attribute, a <style> block
\* or a stylesheet, and so none is handed to the queue.
C33_DataDropped ==
    /\ \A i \in DOMAIN tasks : \A k \in DOMAIN tasks[i].new_urls :
          tasks[i].new_urls[k][1].scheme # "data"
    /\ \A k \in DOMAIN url_queue : url_queue[k][1].scheme # "data"
    /\ \A e \in enqueues : e.url.scheme # "data"

\* the links of the site: from a page or a stylesheet p of the site to each
\* in-scope URL its content refers to, with the depth the link adds (1 from
\* an html page to a URL classified html, 0 otherwise)
InScope(url, subdomains) ==
    \/ url.netloc = domain
    \/ url.netloc = NoHost
    \/ subdomains /\ EndsWithDotDomain(url.netloc, domain)

SiteEdgesOf(variant, subdomains) ==
    UNION {IF get_asset_type(p) = "html"
           THEN {<<p, v, IF get_asset_type(v) = "html" THEN 1 ELSE 0>> :
                    v \in {l \in extract_links_advanced(pages(variant, p), p) :
                              InScope(l, subdomains)}}
           ELSE IF get_asset_type(p) = "css"
           THEN {<<p, v, 0>> :
                    v \in {l \in extract_css_urls(Range(pages(variant, p)), p) :
                              InScope(l, subdomains)}}
           ELSE {} : p \in SiteUrls}

SiteVariants == {"styled", "plain"}

\* the links for either root page and either value of include_subdomains
SiteEdgesBy ==
    [variant \in SiteVariants |->
        [subdomains \in BOOLEAN |-> SiteEdgesOf(variant, subdomains)]]

SiteEdges == SiteEdgesBy[site_variant][include_subdomains]

\* more than any distance on the site
Unreached == Cardinality(AllUrls) + 1

RECURSIVE Relax(_, _, _)
Relax(edges, dist, n) ==
    IF n = 0 THEN dist
    ELSE Relax(edges,
               [u \in AllUrls |->
                  LET via == {dist[e[1]] + e[3] :
                                 e \in {x \in edges : x[2] = u /\ dist[x[1]] # Unreached}}
                  IN  IF via = {} THEN dist[u]
                      ELSE Min(dist[u], CHOOSE m \in via : \A o \in via : m <= o)],
               n - 1)

BfsDistanceBy ==
    [variant \in SiteVariants |->
        [subdomains \in BOOLEAN |->
            Relax(SiteEdgesBy[variant][subdomains],
                  [u \in AllUrls |-> IF u = base_url THEN 0 ELSE Unreached],
                  Cardinality(AllUrls))]]

\* the BFS distance of every URL from the seed
BfsDistance == BfsDistanceBy[site_variant][include_subdomains]

\* a crawl of the site whose root page has no style attribute, so that the
\* image is referred to by /docs/a (a page, one link from the root) and by
\* /css/style.css (a stylesheet of the root) only
InitDepth ==
    /\ impl = "advanced"
    /\ max_depth \in 1..MaxDepthBound
    /\ max_workers \in {1, MaxWorkers}
    /\ delay = 1
    /\ site_variant = "plain"
    /\ include_subdomains = FALSE
    /\ denied = {SubPage, ThemePhp}
    /\ force_redownload = DefaultOptions.force
    /\ robots_txt = DefaultOptions.robots
    /\ files = DefaultOptions.files
    /\ downloaded_urls = {}
    /\ failed_urls = {}
    /\ download_stats = NoStats
    /\ url_queue = << <<base_url, 0>> >>
    /\ url_aliases = << >>
    /\ verify_report = NotVerified
    /\ tasks = << >>
    /\ lock = 0
    /\ unlocked = {}
    /\ fetch_count = [u \in AllUrls |-> 0]
    /\ fetch_depths = [u \in AllUrls |-> {}]
    /\ rewrites = {}
    /\ enqueues = {}
    /\ basic_requests = 0
    /\ mapped = {}

\* the steps of AdvancedWebsiteDownloader.download_website
DepthNext ==
    \/ FormBatch
    \/ \E i \in TaskIds : Start(i)
    \/ \E i \in TaskIds : BeginAttempt(i)
    \/ \E i \in TaskIds : GetOk(i)
    \/ \E i \in TaskIds : GetFail(i)
    \/ \E i \in TaskIds : StreamFail(i)
    \/ \E i \in TaskIds : Acquire(i)
    \/ \E i \in TaskIds : MarkDownloaded(i)
    \/ \E i \in TaskIds : MarkFailed(i)
    \/ \E i \in TaskIds : Collect(i)
    \/ \E i \in TaskIds : ProcessError(i)
    \/ \E i \in TaskIds : Process(i)

SpecDepth == InitDepth /\ [][DepthNext]_vars

\* the URLs a finished crawl must have handled: the seed, and every URL
\* within max_depth that robots.txt allows and that a page or stylesheet
\* which was saved and processed refers to
MustBeHandled ==
    {u \in AllUrls :
        /\ BfsDistance[u] <= max_depth
        /\ can_fetch(u)
        /\ \/ u = base_url
           \/ \E e \in SiteEdges :
                 /\ e[2] = u /\ e[1] \in downloaded_urls
                 /\ \E rw \in rewrites : rw.url = e[1]}

\* C34: with AdvancedWebsiteDownloader, single-threaded or pooled, the
\* first unit of a URL that goes on to a fetch has the URL's BFS distance
\* from the seed as its depth, and when the crawl has ended the URLs
\* handled (downloaded or failed) are those the BFS reaches - one set for
\* both drivers.
C34_BfsDepth ==
    /\ [][impl = "advanced" =>
            \A u \in AllUrls :
                (fetch_depths[u] = {} /\ fetch_depths'[u] # {}) =>
                    fetch_depths'[u] = {BfsDistance[u]}]_vars
    /\ []((impl = "advanced" /\ Exhausted) =>
            downloaded_urls \cup failed_urls = MustBeHandled)

\* C35: download_file_with_retry never certifies a partial file: a unit goes
\* on to record its URL as downloaded only when the file was at the mapped
\* path before its first attempt, or when the attempt that ends has made
\* the request and saved the whole body; and a unit that is about to return
\* success with no file there at its start has the whole body on disk.
C35_NoPartialSuccess ==
    /\ [][\A i \in Ids :
             (i \in DOMAIN tasks' /\ tasks[i].pc # "mark_ok" /\ tasks'[i].pc = "mark_ok") =>
                 \/ tasks'[i].existed
                 \/ /\ tasks[i].pc = "get"
                    /\ tasks'[i].requests = tasks[i].attempt + 1
                    /\ files'[url_to_filepath(tasks[i].url)] = site_content(tasks[i].url)]_vars
    /\ [](\A i \in Ids :
             (tasks[i].pc \in {"mark_ok", "locked_ok"} /\ ~ tasks[i].existed) =>
                 /\ url_to_filepath(tasks[i].url) \in DOMAIN files
                 /\ files[url_to_filepath(tasks[i].url)] = site_content(tasks[i].url))

\* C36: no URL is in downloaded_urls and in failed_urls at once: a URL
\* recorded as failed is not recorded as downloaded later in the run, and a
\* URL recorded as downloaded is not recorded as failed later.
C36_ExclusiveOutcome ==
    /\ [](downloaded_urls \cap failed_urls = {})
    /\ [][/\ (downloaded_urls' \ downloaded_urls) \cap failed_urls = {}
          /\ (failed_urls' \ failed_urls) \cap downloaded_urls = {}]_vars

RECURSIVE SumOver(_, _)
SumOver(f, keys) ==
    IF keys = {} THEN 0
    ELSE LET k == CHOOSE x \in keys : TRUE
         IN  f[k] + SumOver(f, keys \ {k})

\* C37: with AdvancedWebsiteDownloader, single-threaded or pooled, the
\* counters of download_stats add up to the number of URLs in
\* downloaded_urls in every state, the URLs that an existing file has
\* satisfied included.
C37_CounterConsistency ==
    impl = "advanced" =>
        SumOver(download_stats, DOMAIN download_stats) = Cardinality(downloaded_urls)

\* the references of a rewritten document that the Rewriter has replaced
Replaced(rw) == {k \in DOMAIN rw.before : rw.after[k].val # rw.before[k].val}

\* the URL a reference of the document of url stood for
TargetOf(url, ref) ==
    IF impl = "advanced" THEN normalize_url(urljoin(url, ref.val))
    ELSE basic_normalize_url(urljoin(url, ref.val))

MirrorPath(url) ==
    IF impl = "advanced" THEN url_to_filepath(url) ELSE basic_url_to_filepath(url)

\* C38: when the crawl has ended, every reference the Rewriter has replaced
\* by a relative path stands for a URL that is in downloaded_urls and whose
\* file is in the mirror; and verify_completeness, run after a crawl in
\* which no fetch has failed, finds no broken link.
C38_SelfContained ==
    /\ Exhausted =>
          \A rw \in rewrites : \A k \in Replaced(rw) :
              /\ TargetOf(rw.url, rw.before[k]) \in downloaded_urls
              /\ MirrorPath(TargetOf(rw.url, rw.before[k])) \in DOMAIN files
    /\ (verify_report.ran /\ failed_urls = {}) => verify_report.broken = {}

\* ------------------------------------------------------------------------
\* normalize_url on the references an extractor may meet
\* ------------------------------------------------------------------------
DocsDir == [Https(RootHost, <<Seg("docs", "")>>) EXCEPT !.slash = TRUE]

NormUrls ==
    {base_url, RootSlash, PageA,
     [PageA EXCEPT !.frag = "top"],
     [PageA EXCEPT !.slash = TRUE],
     DocsDir,
     [DocsDir EXCEPT !.frag = "top"],
     WithQuery(DocsDir, <<"x", "=", "1">>),
     WithQuery([DocsDir EXCEPT !.slash = FALSE], <<"x", "=", "1">>),
     WithQuery(PageA, <<"q", "=", "%23", "x">>),
     WithQuery(PageA, <<"q", "=", "%2523", "x">>)}

InitNorm ==
    /\ impl \in {"advanced", "basic"}
    /\ max_depth = 0
    /\ max_workers = 1
    /\ delay = 1
    /\ site_variant = "styled"
    /\ include_subdomains = FALSE
    /\ force_redownload = FALSE
    /\ robots_txt = "served"
    /\ denied = {SubPage, ThemePhp}
    /\ downloaded_urls = {}
    /\ failed_urls = {}
    /\ download_stats = NoStats
    /\ \E u1, u2 \in NormUrls : url_queue = << <<u1, 0>>, <<u2, 0>> >>
    /\ files = << >>
    /\ url_aliases = << >>
    /\ verify_report = NotVerified
    /\ tasks = << >>
    /\ lock = 0
    /\ unlocked = {}
    /\ fetch_count = [u \in AllUrls |-> 0]
    /\ fetch_depths = [u \in AllUrls |-> {}]
    /\ rewrites = {}
    /\ enqueues = {}
    /\ basic_requests = 0
    /\ mapped = {}

\* self.normalize_url(url) on an AdvancedWebsiteDownloader, the result
\* taking the place of the reference
NormalizeUrl ==
    /\ impl = "advanced"
    /\ \E k \in DOMAIN url_queue :
          /\ normalize_url(url_queue[k][1]) # url_queue[k][1]
          /\ url_queue' = [url_queue EXCEPT ![k] = <<normalize_url(@[1]), @[2]>>]
    /\ UNCHANGED <<config, mapped, download_stats, verify_report, lock, downloaded_urls, failed_urls,
                   files, url_aliases, tasks, history>>

\* self.normalize_url(url) on a WebsiteDownloader
BasicNormalizeUrl ==
    /\ impl = "basic"
    /\ \E k \in DOMAIN url_queue :
          /\ basic_normalize_url(url_queue[k][1]) # url_queue[k][1]
          /\ url_queue' = [url_queue EXCEPT ![k] = <<basic_normalize_url(@[1]), @[2]>>]
    /\ UNCHANGED <<config, mapped, download_stats, verify_report, lock, downloaded_urls, failed_urls,
                   files, url_aliases, tasks, history>>

NormNext == NormalizeUrl \/ BasicNormalizeUrl

SpecNorm == InitNorm /\ [][NormNext]_vars

\* the URL string holds a '#'
HasFragment(url) == url.frag # "" \/ "#" \in Range(url.query)

\* the path is not the root and ends in '/'
HasTrailingSlash(url) == url.path # << >> /\ url.slash

\* the two references differ at most in the fragment and in the slash that
\* ends the path
SameResource(u1, u2) ==
    [u1 EXCEPT !.frag = "", !.slash = FALSE] = [u2 EXCEPT !.frag = "", !.slash = FALSE]

\* C39: what normalize_url returns is a fixed point of normalize_url, has
\* no fragment and no slash at the end of a path that is not the root,
\* with or without a query; and two references to one resource have one
\* normal form.
C39_Canonical ==
    /\ \A k \in DOMAIN url_queue :
          LET result == TheNormalize(url_queue[k][1]) IN
          /\ TheNormalize(result) = result
          /\ ~ HasFragment(result)
          /\ ~ HasTrailingSlash(result)
    /\ \A k1, k2 \in DOMAIN url_queue :
          SameResource(url_queue[k1][1], url_queue[k2][1]) =>
              TheNormalize(url_queue[k1][1]) = TheNormalize(url_queue[k2][1])

====
